---- MODULE Spec2Model ----
(***************************************************************************)
(* Position Controller (strategies/hma_multitrend.py, HmaMultiTrendStrategy)*)
(* and Trade Ledger (analyzers/trade_list.py, TradeList) driven bar by bar  *)
(* by the replay engine and its broker (the Execution Gateway).             *)
(*                                                                         *)
(* One bar is processed in the engine's callback order:                    *)
(*   BrokerNext      the gateway matches the orders it holds against the    *)
(*                   new bar and queues order and trade notifications       *)
(*   NotifyOrder     HmaMultiTrendStrategy.notify_order, once per order     *)
(*   NotifyTrade     HmaMultiTrendStrategy.notify_trade, once per trade     *)
(*   LedgerNotifyTrade  TradeList.notify_trade, on the same trade object    *)
(*   Next            HmaMultiTrendStrategy.next                             *)
(*   LedgerNext      TradeList.next                                         *)
(*   GetAnalysis     TradeList.get_analysis, between two bars               *)
(* Prices are integers (paise); a size is signed, positive for long.        *)
(***************************************************************************)
EXTENDS Integers, Sequences, FiniteSets, TLC

\* ------------------------------------------------------------------ bounds
\* number of bars of one replay
MaxBars == 5

\* the ledger alone: bars fed, closed records kept
MaxLedgerBars == 1
MaxClosed == 1

\* ------------------------------------------------- program constants (None)
NoOrder == 0
NoBar == -1
NoPrice == -1
NoAtr == -1
NoCutoff == -1
NoTradeId == -1
\* tradeid of every order the controller creates (none is passed to buy/sell)
DefaultTradeId == 0

\* ------------------------------------------------------------ feed inputs
\* one bar: open, high, low, close and the volatility reading (ATR) on it
BarShapes ==
    { [open |-> 10000, high |-> 10000, low |-> 10000, close |-> 10000, atr |-> 100],
      [open |-> 10000, high |-> 10200, low |-> 10000, close |-> 10200, atr |-> 200],
      [open |-> 10000, high |-> 10000, low |-> 9800,  close |-> 9800,  atr |-> 200],
      [open |-> 10000, high |-> 10100, low |-> 9900,  close |-> 10000, atr |-> 100] }

\* the four trend averages fast, mid1, mid2, mid3
HmaReadings ==
    { [fast |-> 9950,  mid1 |-> 9400,  mid2 |-> 9300,  mid3 |-> 9200],
      [fast |-> 10500, mid1 |-> 10600, mid2 |-> 10700, mid3 |-> 10800],
      [fast |-> 9500,  mid1 |-> 9500,  mid2 |-> 9400,  mid3 |-> 9300] }

\* the trend-strength reading (ADX): below, at and above the default threshold
AdxReadings == {19, 20, 21}

\* what next() reads of the indicators on a bar
IndReadings == { [hma |-> h, adx |-> x] : h \in HmaReadings, x \in AdxReadings }

NoData == [open |-> 10000, high |-> 10000, low |-> 10000, close |-> 10000, atr |-> 100]

\* ----------------------------------------------------------- configuration
\* params of HmaMultiTrendStrategy: the defaults, overridden per configuration
DefaultParams ==
    [fast |-> 80, mid1 |-> 220, mid2 |-> 560, mid3 |-> 1520,
     atr_mult |-> 1, ignore_before |-> NoCutoff, use_sl_tg |-> TRUE,
     sl_mode |-> "PCT", sl_value |-> 1, use_trailing |-> TRUE, trail_atr_mult |-> 1,
     use_signal_exit |-> TRUE, adx_threshold |-> 20, reentry_cooldown |-> 0,
     order_size |-> 1]

Configs ==
    { DefaultParams,
      [DefaultParams EXCEPT !.atr_mult = 0, !.sl_mode = "ATR", !.use_trailing = FALSE,
                            !.use_signal_exit = FALSE, !.reentry_cooldown = 1],
      [DefaultParams EXCEPT !.ignore_before = 2, !.sl_mode = "FIXED", !.sl_value = 100,
                            !.use_trailing = FALSE],
      [DefaultParams EXCEPT !.use_sl_tg = FALSE] }

\* params that are not a valid configuration: a negative cooldown, HMA periods
\* that are not in increasing order
InvalidConfigs ==
    { [DefaultParams EXCEPT !.reentry_cooldown = -1],
      [DefaultParams EXCEPT !.fast = 220, !.mid1 = 80] }

VARIABLES
    p,        \* self.p, the params of this run
    bar,      \* len(self): the number of the current bar; also its timestamp
    data,     \* the current bar of the feed (self.data.*[0], self.atr[0])
    phase,    \* where the engine is in the bar's callback order
    orderq,   \* order notifications to deliver on this bar
    tradeq,   \* trade notifications to deliver on this bar
    broker,   \* the gateway: orders held, position, open trade, counters
    strat,    \* the controller's attributes
    ledger,   \* the ledger: closed_trades, open_stats
    cmds,     \* commands the controller has emitted on this bar, in order
    fills,    \* executions the gateway has made on this bar, in order
    results   \* whether get_analysis() was called since the bar ended, and its result

vars == <<p, bar, data, phase, orderq, tradeq, broker, strat, ledger, cmds, fills, results>>

\* ---------------------------------------------------------------- helpers
Abs(x) == IF x < 0 THEN -x ELSE x
Max(a, b) == IF a >= b THEN a ELSE b
Min(a, b) == IF a <= b THEN a ELSE b
Sign(x) == IF x > 0 THEN 1 ELSE IF x < 0 THEN -1 ELSE 0

RECURSIVE Filter(_, _)
Filter(s, ref) ==
    IF s = <<>> THEN <<>>
    ELSE IF Head(s).ref = ref THEN Filter(Tail(s), ref)
         ELSE <<Head(s)>> \o Filter(Tail(s), ref)

\* ------------------------------------------------------ Execution Gateway
\* The broker of the replay engine. It holds the orders in submission order;
\* on each new bar it accepts (or refuses) the orders submitted since the last
\* bar, then tries each held order against the bar. A market order executes at
\* the close of the bar it was created on (the drivers run with cheat-on-close,
\* scripts/run_hmamulti_test.py:92); a stop executes when the bar trades through
\* its price; a trailing stop that is not hit follows the close. cancel() takes
\* an order out at once. Notifications are delivered on the next bar.
NoTrade ==
    [seq |-> 0, tradeid |-> NoTradeId, size |-> 0, price |-> 0, cash |-> 0,
     opened_by |-> "none", entry_price |-> 0, entry_size |-> 0]

NewOrder(ref, exectype, size, price, trailamount, kind, d) ==
    [ref |-> ref, exectype |-> exectype, size |-> size, price |-> price,
     trailamount |-> trailamount, pclose |-> d.close, kind |-> kind, fresh |-> TRUE]

OrderNotif(o, status, px, esize) ==
    [ref |-> o.ref, status |-> status, exectype |-> o.exectype, size |-> o.size,
     price |-> px, esize |-> esize, kind |-> o.kind]

\* the first stop price of a trailing order: the close it was created on, less
\* the trail amount (a sell), plus it (a buy)
TrailStart(size, trailamount, d) ==
    IF size < 0 THEN d.close - trailamount ELSE d.close + trailamount

HasOrder(b, ref) == \E i \in 1..Len(b.pending) : b.pending[i].ref = ref

\* one command of the controller, applied to the gateway
ApplyCmd(b, c, d) ==
    CASE c.cmd = "submit_entry" ->
           [b EXCEPT !.pending = Append(@, NewOrder(c.ref, "Market", c.size, 0, 0, "entry", d)),
                     !.nextRef = @ + 1]
      [] c.cmd = "submit_fixed_stop" ->
           [b EXCEPT !.pending = Append(@, NewOrder(c.ref, "Stop", c.size, c.price, 0, "sl", d)),
                     !.nextRef = @ + 1]
      [] c.cmd = "submit_trailing_stop" ->
           [b EXCEPT !.pending = Append(@, NewOrder(c.ref, "StopTrail", c.size,
                                        TrailStart(c.size, c.trailamount, d),
                                        c.trailamount, "trail", d)),
                     !.nextRef = @ + 1]
      [] c.cmd = "close_position" ->
           IF c.size = 0 THEN b
           ELSE [b EXCEPT !.pending = Append(@, NewOrder(c.ref, "Market", c.size, 0, 0, "close", d)),
                          !.nextRef = @ + 1]
      [] c.cmd = "cancel" ->
           IF HasOrder(b, c.ref)
           THEN LET o == CHOOSE x \in {b.pending[i] : i \in 1..Len(b.pending)} : x.ref = c.ref
                IN [b EXCEPT !.pending = Filter(@, c.ref),
                             !.notifs = Append(@, OrderNotif(o, "Canceled", 0, 0))]
           ELSE b

RECURSIVE ApplyCmds(_, _, _)
ApplyCmds(b, cs, d) ==
    IF cs = <<>> THEN b ELSE ApplyCmds(ApplyCmd(b, Head(cs), d), Tail(cs), d)

\* an execution of `size` at `px` against the position and its trade; the trade
\* notifications it causes are appended to acc.tq
Execute(acc, o, px) ==
    LET b       == acc.b
        pos     == b.position
        closing == IF pos * o.size < 0 THEN Min(Abs(pos), Abs(o.size)) ELSE 0
        opening == Abs(o.size) - closing
        sc      == Sign(o.size) * closing
        so      == Sign(o.size) * opening
        t0      == b.trade
        t1      == IF closing > 0
                   THEN [t0 EXCEPT !.size = @ + sc, !.cash = @ - sc * px]
                   ELSE t0
        isclosed == closing > 0 /\ t1.size = 0
        closedmsg == [isopen |-> FALSE, isclosed |-> TRUE, seq |-> t1.seq,
                      tradeid |-> t1.tradeid, size |-> 0, price |-> t1.price,
                      pnl |-> t1.cash, pnlcomm |-> t1.cash, exit_type |-> "None",
                      seen |-> FALSE, history |-> <<>>, by |-> o.kind, byref |-> o.ref, fillprice |-> px]
        tq1     == IF isclosed THEN Append(acc.tq, closedmsg) ELSE acc.tq
        fresh   == opening > 0 /\ t1.size = 0
        t2      == IF opening = 0 THEN (IF isclosed THEN NoTrade ELSE t1)
                   ELSE IF fresh
                        THEN [seq |-> b.nextSeq, tradeid |-> DefaultTradeId, size |-> so,
                              price |-> px, cash |-> 0 - so * px, opened_by |-> o.kind,
                              entry_price |-> px, entry_size |-> so]
                        ELSE [t1 EXCEPT !.size = @ + so,
                                        !.price = (t1.size * t1.price + so * px) \div (t1.size + so),
                                        !.cash = @ - so * px]
        openmsg == [isopen |-> TRUE, isclosed |-> FALSE, seq |-> t2.seq,
                    tradeid |-> t2.tradeid, size |-> t2.size, price |-> t2.price,
                    pnl |-> 0, pnlcomm |-> 0, exit_type |-> "None",
                    seen |-> FALSE, history |-> <<>>, by |-> o.kind, byref |-> o.ref, fillprice |-> px]
        tq2     == IF fresh THEN Append(tq1, openmsg) ELSE tq1
    IN [b  |-> [b EXCEPT !.position = pos + o.size, !.trade = t2,
                         !.nextSeq = IF fresh THEN @ + 1 ELSE @],
        oq |-> Append(acc.oq, OrderNotif(o, "Completed", px, o.size)),
        tq |-> tq2,
        fl |-> Append(acc.fl, [kind |-> o.kind, ref |-> o.ref, size |-> o.size,
                               price |-> px, pos |-> pos])]

\* the price at which held order o executes on bar d, or NoPrice
ExecPrice(o, d) ==
    CASE o.exectype = "Market" -> o.pclose
      [] o.exectype \in {"Stop", "StopTrail"} /\ o.size < 0 ->
           IF d.open <= o.price THEN d.open
           ELSE IF d.low <= o.price THEN o.price ELSE NoPrice
      [] o.exectype \in {"Stop", "StopTrail"} /\ o.size > 0 ->
           IF d.open >= o.price THEN d.open
           ELSE IF d.high >= o.price THEN o.price ELSE NoPrice

\* a trailing stop that was not hit follows the close
TrailAdjust(o, d) ==
    IF o.exectype # "StopTrail" THEN o
    ELSE IF o.size < 0 THEN [o EXCEPT !.price = Max(@, d.close - o.trailamount)]
         ELSE [o EXCEPT !.price = Min(@, d.close + o.trailamount)]

\* first pass: accept or refuse what was submitted since the last bar
RECURSIVE AcceptAll(_, _, _)
AcceptAll(acc, os, verdict) ==
    IF os = <<>> THEN acc
    ELSE LET o == Head(os) IN
         IF ~o.fresh
         THEN AcceptAll([acc EXCEPT !.b.pending = Append(@, o)], Tail(os), verdict)
         ELSE IF o.kind = "entry" /\ verdict # "Accepted"
         THEN AcceptAll([acc EXCEPT !.oq = Append(@, OrderNotif(o, verdict, 0, 0))],
                        Tail(os), verdict)
         ELSE AcceptAll([acc EXCEPT !.b.pending = Append(@, [o EXCEPT !.fresh = FALSE]),
                                    !.oq = Append(@, OrderNotif(o, "Accepted", 0, 0))],
                        Tail(os), verdict)

\* second pass: try every held order, in submission order
RECURSIVE ExecAll(_, _, _)
ExecAll(acc, os, d) ==
    IF os = <<>> THEN acc
    ELSE LET o  == Head(os)
             px == ExecPrice(o, d)
         IN IF px = NoPrice
            THEN ExecAll([acc EXCEPT !.b.pending = Append(@, TrailAdjust(o, d))], Tail(os), d)
            ELSE ExecAll(Execute(acc, o, px), Tail(os), d)

BrokerStep(b, d, verdict) ==
    LET a0 == [b |-> [b EXCEPT !.pending = <<>>, !.notifs = <<>>], oq |-> b.notifs,
               tq |-> <<>>, fl |-> <<>>]
        a1 == AcceptAll(a0, b.pending, verdict)
        a2 == ExecAll([a1 EXCEPT !.b.pending = <<>>], a1.b.pending, d)
    IN a2

HasFreshEntry(b) ==
    \E i \in 1..Len(b.pending) : b.pending[i].fresh /\ b.pending[i].kind = "entry"

Verdicts == {"Accepted", "Margin", "Rejected", "Canceled"}

\* ---------------------------------------------------- Position Controller
Cmd(cmd, ref, size, price, trailamount, pos) ==
    [cmd |-> cmd, ref |-> ref, size |-> size, price |-> price,
     trailamount |-> trailamount, pos |-> pos]

\* _calc_stoploss: the fixed-stop price for an entry at entry_price
calc_stoploss(pp, entry_price, d) ==
    CASE pp.sl_mode = "PCT" -> (entry_price * (100 - pp.sl_value)) \div 100
      [] pp.sl_mode = "ATR" -> entry_price - pp.sl_value * d.atr
      [] OTHER              -> entry_price - pp.sl_value

\* a completion handler that keeps the reference to the filled entry
EntryCompleted_KeepRef(s, b, pp, order, d) ==
    [s |-> [s EXCEPT !.last_atr_on_entry = d.atr], cs |-> <<>>]

\* notify_order, branch 2: the entry order completed
EntryCompleted(s, b, pp, order, d) ==
    LET r1   == b.nextRef
        sl   == pp.use_sl_tg
        tr   == pp.use_sl_tg /\ pp.use_trailing
        r2   == IF sl THEN r1 + 1 ELSE r1
        slc  == IF sl
                THEN <<Cmd("submit_fixed_stop", r1, 0 - Abs(order.esize),
                           calc_stoploss(pp, order.price, d), 0, b.position)>>
                ELSE <<>>
        trc  == IF tr
                THEN <<Cmd("submit_trailing_stop", r2, 0 - Abs(order.esize), 0,
                           pp.trail_atr_mult * d.atr, b.position)>>
                ELSE <<>>
    IN [s  |-> [s EXCEPT !.last_atr_on_entry = d.atr,
                         !.sl_order = IF sl THEN r1 ELSE @,
                         !.trail_order = IF tr THEN r2 ELSE @,
                         !.entry_order = NoOrder],
        cs |-> slc \o trc]

\* a fixed-stop handler that leaves no tag
StopLossHit_NoTag(s, b) ==
    LET c == IF s.trail_order # NoOrder
             THEN <<Cmd("cancel", s.trail_order, 0, 0, 0, b.position)>> ELSE <<>>
    IN [s |-> [s EXCEPT !.trail_order = NoOrder], cs |-> c]

\* notify_order, branch 3: the fixed stop filled
StopLossHit(s, b) ==
    [s  |-> [s EXCEPT !.last_exit_type = "STOPLOSS", !.trail_order = NoOrder],
     cs |-> IF s.trail_order # NoOrder
            THEN <<Cmd("cancel", s.trail_order, 0, 0, 0, b.position)>> ELSE <<>>]

\* a trailing-stop handler that leaves the fixed stop with the gateway
TrailHit_NoCancel(s, b) ==
    [s |-> [s EXCEPT !.last_exit_type = "TRAIL", !.sl_order = NoOrder], cs |-> <<>>]

\* notify_order, branch 3: the trailing stop filled
TrailHit(s, b) ==
    [s  |-> [s EXCEPT !.last_exit_type = "TRAIL", !.sl_order = NoOrder],
     cs |-> IF s.sl_order # NoOrder
            THEN <<Cmd("cancel", s.sl_order, 0, 0, 0, b.position)>> ELSE <<>>]

\* a refusal handler that keeps the reference to the refused entry
EntryRefused_Keep(s) == [s |-> s, cs |-> <<>>]

\* notify_order, branch 2: the entry order was cancelled, rejected or failed on margin
EntryRefused(s) == [s |-> [s EXCEPT !.entry_order = NoOrder], cs |-> <<>>]

\* HmaMultiTrendStrategy.notify_order
notify_order(s, b, pp, order, d) ==
    IF order.status \in {"Created", "Submitted", "Accepted"}
    THEN [s |-> s, cs |-> <<>>]
    ELSE IF s.entry_order # NoOrder /\ order.ref = s.entry_order
    THEN IF order.status = "Completed"
         THEN EntryCompleted(s, b, pp, order, d)
         ELSE IF order.status \in {"Canceled", "Margin", "Rejected"}
              THEN EntryRefused(s)
              ELSE [s |-> s, cs |-> <<>>]
    ELSE IF order.status = "Completed"
    THEN IF order.exectype = "Stop" /\ s.sl_order # NoOrder /\ order.ref = s.sl_order
         THEN StopLossHit(s, b)
         ELSE IF order.exectype = "StopTrail" /\ s.trail_order # NoOrder
                 /\ order.ref = s.trail_order
              THEN TrailHit(s, b)
              ELSE [s |-> s, cs |-> <<>>]
    ELSE [s |-> s, cs |-> <<>>]

\* a date filter that also drops the bar of the cutoff
DateFiltered_Le(pp, dt) == pp.ignore_before # NoCutoff /\ dt <= pp.ignore_before

\* next, step 1: the date filter
DateFiltered(pp, dt) == pp.ignore_before # NoCutoff /\ dt < pp.ignore_before

\* next, step 2: the ADX filter
AdxFiltered(pp, ind) == ind.adx < pp.adx_threshold

\* a cooldown that ends one bar early
InCooldown_Strict(s, pp, b) ==
    s.last_exit_bar # NoBar /\ (b - s.last_exit_bar) < pp.reentry_cooldown

\* next, step 3: an entry is pending or the cooldown runs
InCooldown(s, pp, b) ==
    s.last_exit_bar # NoBar /\ (b - s.last_exit_bar) <= pp.reentry_cooldown

EntryBlocked(s, pp, b) == s.entry_order # NoOrder \/ InCooldown(s, pp, b)

\* a long condition that lets the fast average equal the next one
long_cond_NonStrict(ind) ==
    ind.hma.fast >= ind.hma.mid1 /\ ind.hma.mid1 > ind.hma.mid2 /\ ind.hma.mid2 > ind.hma.mid3

\* next, step 4: the trend conditions
long_cond(ind) ==
    ind.hma.fast > ind.hma.mid1 /\ ind.hma.mid1 > ind.hma.mid2 /\ ind.hma.mid2 > ind.hma.mid3

short_cond(ind) ==
    ind.hma.fast < ind.hma.mid1 /\ ind.hma.mid1 < ind.hma.mid2 /\ ind.hma.mid2 < ind.hma.mid3

\* a gap filter that never skips the entry
GapSkip_Never(s, pp, d) == FALSE

\* a gap filter that skips the entry when the gap is below the threshold
GapSkip_Flipped(s, pp, d) ==
    /\ pp.atr_mult # 0
    /\ s.last_close # NoPrice
    /\ Abs(d.close - s.last_close) < pp.atr_mult * d.atr

\* next, step 5: the ATR-gap filter skips the entry
GapSkip(s, pp, d) ==
    /\ pp.atr_mult # 0
    /\ s.last_close # NoPrice
    /\ Abs(d.close - s.last_close) > pp.atr_mult * d.atr

\* an entry decision that does not look at the position
WantsEntry_NoPosCheck(b, ind) == long_cond(ind) \/ short_cond(ind)

\* next, step 5: whether an entry is submitted
WantsEntry(b, ind) == b.position = 0 /\ (long_cond(ind) \/ short_cond(ind))

\* next, step 7: whether the position is closed on the signal
WantsSignalExit(b, pp, ind) ==
    /\ b.position # 0
    /\ pp.use_signal_exit
    /\ (long_cond(ind) \/ short_cond(ind))
    /\ (b.position < 0 /\ long_cond(ind)) \/ (b.position > 0 /\ short_cond(ind))

\* next, step 7: cancel the stops, then close
SignalExit(s, b) ==
    LET c1 == IF s.sl_order # NoOrder
              THEN <<Cmd("cancel", s.sl_order, 0, 0, 0, b.position)>> ELSE <<>>
        c2 == IF s.trail_order # NoOrder
              THEN <<Cmd("cancel", s.trail_order, 0, 0, 0, b.position)>> ELSE <<>>
    IN [s  |-> [s EXCEPT !.sl_order = NoOrder, !.trail_order = NoOrder],
        cs |-> c1 \o c2 \o <<Cmd("close_position", b.nextRef, 0 - b.position, 0, 0, b.position)>>]

\* HmaMultiTrendStrategy.next
next(s, b, pp, barno, d, ind) ==
    IF DateFiltered(pp, barno) \/ AdxFiltered(pp, ind)
    THEN [s |-> [s EXCEPT !.last_close = d.close], cs |-> <<>>]
    ELSE IF EntryBlocked(s, pp, barno)
    THEN [s |-> s, cs |-> <<>>]
    ELSE IF WantsEntry(b, ind) /\ GapSkip(s, pp, d)
    THEN [s |-> [s EXCEPT !.last_close = d.close], cs |-> <<>>]
    ELSE IF WantsEntry(b, ind)
    THEN LET size == IF long_cond(ind) THEN pp.order_size ELSE 0 - pp.order_size
         IN [s  |-> [s EXCEPT !.entry_order = b.nextRef, !.last_close = d.close],
             cs |-> <<Cmd("submit_entry", b.nextRef, size, 0, 0, b.position)>>]
    ELSE IF WantsSignalExit(b, pp, ind)
    THEN LET x == SignalExit(s, b)
         IN [s |-> [x.s EXCEPT !.last_close = d.close], cs |-> x.cs]
    ELSE [s |-> [s EXCEPT !.last_close = d.close], cs |-> <<>>]

\* a stamp that marks an untagged close as still open
StampedExitType_Open(s) == IF s.last_exit_type # "None" THEN s.last_exit_type ELSE "OPEN"

\* notify_trade: the exit type stamped on a closed trade
StampedExitType(s) == IF s.last_exit_type # "None" THEN s.last_exit_type ELSE "SIGNAL"

\* HmaMultiTrendStrategy.notify_trade: the controller after the notification
notify_trade(s, trade, barno) ==
    IF trade.isopen
    THEN [s EXCEPT !.last_tradeid = trade.tradeid]
    ELSE IF trade.isclosed
    THEN [s EXCEPT !.last_exit_bar = barno, !.last_exit_type = "None",
                   !.last_atr_on_entry = NoAtr]
    ELSE s

\* ------------------------------------------------------------ Trade Ledger
\* open_stats is a dict: a sequence of [key, stats] in insertion order
DictHas(dct, k) == \E i \in 1..Len(dct) : dct[i].key = k

DictGet(dct, k) == (CHOOSE e \in {dct[i] : i \in 1..Len(dct)} : e.key = k).stats

RECURSIVE DictPop(_, _)
DictPop(dct, k) ==
    IF dct = <<>> THEN <<>>
    ELSE IF Head(dct).key = k THEN Tail(dct)
         ELSE <<Head(dct)>> \o DictPop(Tail(dct), k)

\* a store that adds a second stat for a key it already holds
DictSet_Append(dct, k, v) == Append(dct, [key |-> k, stats |-> v])

DictSet(dct, k, v) ==
    IF DictHas(dct, k)
    THEN [i \in 1..Len(dct) |-> IF dct[i].key = k THEN [key |-> k, stats |-> v] ELSE dct[i]]
    ELSE Append(dct, [key |-> k, stats |-> v])

\* open stats that leave the ATR snapshot to be filled in later
OpenStats_NoSnapshot(trade, s, barno) ==
    [tradeid |-> trade.tradeid, seq |-> trade.seq, dt_in |-> barno,
     price_in |-> trade.price, size |-> trade.size, entry_bar |-> barno,
     atr_entry |-> NoAtr, mae_abs |-> 0, mfe_abs |-> 0]

\* notify_trade, on open: the stats stored under the trade id
OpenStats(trade, s, barno) ==
    [tradeid |-> trade.tradeid, seq |-> trade.seq, dt_in |-> barno,
     price_in |-> trade.price, size |-> trade.size, entry_bar |-> barno,
     atr_entry |-> s.last_atr_on_entry, mae_abs |-> 0, mfe_abs |-> 0]

\* notify_trade, on close: the exit type from the trade's history (newest first)
RECURSIVE HistoryExitType(_)
HistoryExitType(h) ==
    IF h = <<>> THEN "SIGNAL"
    ELSE LET et == h[Len(h)].exectype IN
         CASE et = "Stop"      -> "STOPLOSS"
           [] et = "StopTrail" -> "TRAIL"
           [] et = "Limit"     -> "TARGET"
           [] OTHER            -> HistoryExitType(SubSeq(h, 1, Len(h) - 1))

\* notify_trade, on close: the tag the controller stamped, else the history
ExitTypeOf(trade) ==
    IF trade.exit_type # "None" THEN trade.exit_type ELSE HistoryExitType(trade.history)

\* notify_trade, on close: the price of the newest history event, else
\* trade.priceclose (an attribute the engine's Trade does not have), else trade.price
ExitPriceOf(trade) ==
    IF trade.history # <<>> THEN trade.history[Len(trade.history)].price ELSE trade.price

\* atr_entry / entry_px as the pair of its terms, <<>> for None
AtrPct(atr_entry, entry_px) ==
    IF entry_px # 0 /\ atr_entry # NoAtr /\ atr_entry # 0
    THEN <<atr_entry, entry_px>> ELSE <<>>

\* notify_trade, on close: the record appended to closed_trades
ClosedRecord(stats, trade, barno) ==
    [dt_in |-> stats.dt_in, dt_out |-> barno, price_in |-> stats.price_in,
     price_out |-> ExitPriceOf(trade), size |-> stats.size,
     side |-> IF stats.size > 0 THEN "BUY" ELSE "SELL",
     pnl |-> trade.pnl, pnl_comm |-> trade.pnlcomm,
     barlen |-> barno - stats.entry_bar, tradeid |-> trade.tradeid,
     atr_entry |-> stats.atr_entry, atr_pct |-> AtrPct(stats.atr_entry, stats.price_in),
     mae_abs |-> stats.mae_abs, mfe_abs |-> stats.mfe_abs,
     exit_type |-> ExitTypeOf(trade),
     \* not fields of the record: the trade's number in the gateway and the kind of
     \* the order whose execution closed it
     seq |-> stats.seq, closed_by |-> trade.by]

\* a ledger that records the close and keeps the open stat
ledger_notify_trade_NoPop(l, trade, s, barno) ==
    IF trade.isopen
    THEN [l EXCEPT !.open_stats = DictSet(@, trade.tradeid, OpenStats(trade, s, barno))]
    ELSE IF trade.isclosed /\ DictHas(l.open_stats, trade.tradeid)
    THEN [l EXCEPT !.closed_trades =
                       Append(@, ClosedRecord(DictGet(l.open_stats, trade.tradeid),
                                              trade, barno))]
    ELSE l

\* a ledger that puts the record of a close at the head of closed_trades
ledger_notify_trade_Prepend(l, trade, s, barno) ==
    IF trade.isopen
    THEN [l EXCEPT !.open_stats = DictSet(@, trade.tradeid, OpenStats(trade, s, barno))]
    ELSE IF trade.isclosed /\ DictHas(l.open_stats, trade.tradeid)
    THEN [l EXCEPT !.open_stats = DictPop(@, trade.tradeid),
                   !.closed_trades =
                       <<ClosedRecord(DictGet(l.open_stats, trade.tradeid), trade, barno)>> \o @]
    ELSE l

\* TradeList.notify_trade
ledger_notify_trade(l, trade, s, barno) ==
    IF trade.isopen
    THEN [l EXCEPT !.open_stats = DictSet(@, trade.tradeid, OpenStats(trade, s, barno))]
    ELSE IF trade.isclosed
    THEN IF ~DictHas(l.open_stats, trade.tradeid) THEN l
         ELSE [l EXCEPT !.open_stats = DictPop(@, trade.tradeid),
                        !.closed_trades =
                            Append(@, ClosedRecord(DictGet(l.open_stats, trade.tradeid),
                                                   trade, barno))]
    ELSE l

\* an excursion update that keeps the move of the last bar, not the running maximum
Excursion_LastBar(stats, d) ==
    LET is_long == stats.size > 0
        adverse == IF is_long THEN stats.price_in - d.low ELSE d.high - stats.price_in
        fav     == IF is_long THEN d.high - stats.price_in ELSE stats.price_in - d.low
    IN [stats EXCEPT !.mae_abs = adverse, !.mfe_abs = fav]

\* TradeList.next: the excursions of one open trade after a bar
Excursion(stats, d) ==
    LET is_long == stats.size > 0
        adverse == IF is_long THEN stats.price_in - d.low ELSE d.high - stats.price_in
        fav     == IF is_long THEN d.high - stats.price_in ELSE stats.price_in - d.low
    IN [stats EXCEPT !.mae_abs = Max(@, adverse), !.mfe_abs = Max(@, fav)]

\* TradeList.next
ledger_next(l, d) ==
    [l EXCEPT !.open_stats =
        [i \in 1..Len(@) |-> [key |-> @[i].key, stats |-> Excursion(@[i].stats, d)]]]

\* get_analysis: the record of one open trade
OpenRecord(stats, d, barno) ==
    [dt_in |-> stats.dt_in, dt_out |-> NoBar, price_in |-> stats.price_in,
     price_out |-> d.close, size |-> stats.size,
     side |-> IF stats.size > 0 THEN "BUY" ELSE "SELL",
     pnl |-> (d.close - stats.price_in) * stats.size, pnl_comm |-> 0,
     barlen |-> barno - stats.entry_bar, tradeid |-> stats.tradeid,
     atr_entry |-> stats.atr_entry, atr_pct |-> AtrPct(stats.atr_entry, stats.price_in),
     mae_abs |-> stats.mae_abs, mfe_abs |-> stats.mfe_abs,
     exit_type |-> "OPEN", seq |-> stats.seq, closed_by |-> "none"]

\* a get_analysis that lists the open records first
get_analysis_OpenFirst(l, d, barno) ==
    [i \in 1..Len(l.open_stats) |-> OpenRecord(l.open_stats[i].stats, d, barno)] \o l.closed_trades

\* TradeList.get_analysis
get_analysis(l, d, barno) ==
    l.closed_trades \o [i \in 1..Len(l.open_stats) |-> OpenRecord(l.open_stats[i].stats, d, barno)]

\* a get_analysis that builds its result in closed_trades itself, not in a copy
ledger_after_get_analysis_NoCopy(l, d, barno) ==
    [l EXCEPT !.closed_trades = get_analysis(l, d, barno)]

\* TradeList.get_analysis: the ledger after the call. The result is built in a
\* copy of closed_trades (list(...)) and the open stats are only read.
ledger_after_get_analysis(l, d, barno) == l

\* ------------------------------------------------------------------- Init
\* __init__ and start: the attributes after construction, whatever the params are
Constructed ==
    /\ bar = 0
    /\ data = NoData
    /\ phase = "idle"
    /\ orderq = <<>>
    /\ tradeq = <<>>
    /\ broker = [pending |-> <<>>, notifs |-> <<>>, position |-> 0, trade |-> NoTrade,
                 nextRef |-> 1, nextSeq |-> 1]
    /\ strat = [last_atr_on_entry |-> NoAtr, last_close |-> NoPrice,
                entry_order |-> NoOrder, sl_order |-> NoOrder, trail_order |-> NoOrder,
                last_tradeid |-> NoTradeId, last_exit_bar |-> NoBar,
                last_exit_type |-> "None"]
    /\ ledger = [closed_trades |-> <<>>, open_stats |-> <<>>]
    /\ cmds = <<>>
    /\ fills = <<>>
    /\ results = [called |-> FALSE, recs |-> <<>>]

Init == p \in Configs /\ Constructed

\* the feed pushes a bar and the gateway resolves the orders it holds against it
BrokerNext(d, verdict) ==
    /\ phase = "idle"
    /\ bar < MaxBars
    /\ verdict = "Accepted" \/ HasFreshEntry(broker)
    /\ LET a == BrokerStep(broker, d, verdict) IN
         /\ broker' = a.b
         /\ orderq' = a.oq
         /\ tradeq' = a.tq
         /\ fills' = a.fl
    /\ bar' = bar + 1
    /\ data' = d
    /\ phase' = "notify"
    /\ results' = [called |-> FALSE, recs |-> <<>>]
    /\ UNCHANGED cmds
    /\ UNCHANGED <<p, strat, ledger>>

\* the engine delivers the next order notification to the controller
NotifyOrder ==
    /\ phase = "notify"
    /\ orderq # <<>>
    /\ LET r == notify_order(strat, broker, p, Head(orderq), data) IN
         /\ strat' = r.s
         /\ broker' = ApplyCmds(broker, r.cs, data)
         /\ cmds' = cmds \o r.cs
    /\ orderq' = Tail(orderq)
    /\ UNCHANGED <<p, bar, data, phase, tradeq, ledger, fills, results>>

\* the engine delivers the next trade notification to the controller, which
\* stamps the exit type on the trade object the ledger sees next
NotifyTrade ==
    /\ phase = "notify"
    /\ orderq = <<>>
    /\ tradeq # <<>>
    /\ ~Head(tradeq).seen
    /\ strat' = notify_trade(strat, Head(tradeq), bar)
    /\ tradeq' = <<[Head(tradeq) EXCEPT
                      !.seen = TRUE,
                      !.exit_type = IF Head(tradeq).isclosed
                                    THEN StampedExitType(strat) ELSE @]>> \o Tail(tradeq)
    /\ UNCHANGED <<p, bar, data, phase, orderq, broker, ledger, cmds, fills, results>>

\* the engine hands the same trade notification to the ledger
LedgerNotifyTrade ==
    /\ phase = "notify"
    /\ orderq = <<>>
    /\ tradeq # <<>>
    /\ Head(tradeq).seen
    /\ ledger' = ledger_notify_trade(ledger, Head(tradeq), strat, bar)
    /\ tradeq' = Tail(tradeq)
    /\ UNCHANGED <<p, bar, data, phase, orderq, broker, strat, cmds, fills, results>>

\* the controller evaluates the bar, reading the indicators ind on it
Next_(ind) ==
    /\ phase = "notify"
    /\ orderq = <<>>
    /\ tradeq = <<>>
    /\ LET r == next(strat, broker, p, bar, data, ind) IN
         /\ strat' = r.s
         /\ broker' = ApplyCmds(broker, r.cs, data)
         /\ cmds' = cmds \o r.cs
    /\ phase' = "analyzer"
    /\ UNCHANGED <<p, bar, data, orderq, tradeq, ledger, fills, results>>

\* the ledger updates the excursions from the bar
LedgerNext ==
    /\ phase = "analyzer"
    /\ ledger' = ledger_next(ledger, data)
    /\ phase' = "endbar"
    /\ UNCHANGED <<p, bar, data, orderq, tradeq, broker, strat, cmds, fills, results>>

\* the engine ends the bar: no callback of a later bar reads this bar again,
\* except for its close (orders created on it, get_analysis)
EndBar ==
    /\ phase = "endbar"
    /\ data' = [NoData EXCEPT !.close = data.close]
    /\ cmds' = <<>>
    /\ fills' = <<>>
    /\ phase' = "idle"
    /\ UNCHANGED <<p, bar, orderq, tradeq, broker, strat, ledger, results>>

\* the ledger is queried between two bars
GetAnalysis ==
    /\ phase = "idle"
    /\ bar >= 1
    /\ results' = [called |-> TRUE, recs |-> get_analysis(ledger, data, bar)]
    /\ ledger' = ledger_after_get_analysis(ledger, data, bar)
    /\ UNCHANGED <<p, bar, data, phase, orderq, tradeq, broker, strat, cmds, fills>>

Next ==
    \/ \E d \in BarShapes, verdict \in Verdicts : BrokerNext(d, verdict)
    \/ NotifyOrder
    \/ NotifyTrade
    \/ LedgerNotifyTrade
    \/ \E ind \in IndReadings : Next_(ind)
    \/ LedgerNext
    \/ EndBar
    \/ GetAnalysis

Spec == Init /\ [][Next]_vars

\* the engine pushes the next bar of the feed: the step BrokerNext makes, as
\* seen on the bar counter alone
BarPushed == phase = "idle" /\ bar < MaxBars /\ bar' = bar + 1

\* the configurations that place at most one protective order per position: the
\* entry cycle does not depend on how a position is protected
LiveConfigs == {c \in Configs : ~(c.use_sl_tg /\ c.use_trailing)}

LiveInit == p \in LiveConfigs /\ Constructed

\* the replay with the engine's scheduling: cerebro.run() pushes the next bar
\* while the feed has one, and runs every callback of the bar
LiveSpec ==
    /\ LiveInit
    /\ [][Next]_vars
    /\ WF_bar(BarPushed)
    /\ WF_vars(NotifyOrder)
    /\ WF_vars(NotifyTrade)
    /\ WF_vars(LedgerNotifyTrade)
    /\ WF_vars(\E ind \in IndReadings : Next_(ind))
    /\ WF_vars(LedgerNext)
    /\ WF_vars(EndBar)

\* the same replay of a controller constructed with params that are not valid
ConfigInit == p \in InvalidConfigs /\ Constructed

ConfigSpec == ConfigInit /\ [][Next]_vars

\* ------------------------------------------------------ the ledger alone
\* TradeList driven directly with trade notifications, bars and queries, in any
\* order: also with a close that no open preceded and with an open for a trade
\* id that is still open, which the engine itself never delivers.
TradeIds == {0, 1}

\* a trade object as the engine hands it to notify_trade
TradeEvent(isopen, tradeid, size, price, pnl, exit_type, history) ==
    [isopen |-> isopen, isclosed |-> ~isopen, seq |-> 0, tradeid |-> tradeid,
     size |-> size, price |-> price, pnl |-> pnl, pnlcomm |-> pnl,
     exit_type |-> exit_type, seen |-> TRUE, history |-> history,
     by |-> "none", byref |-> NoOrder, fillprice |-> price]

\* an open: the trade and the ATR snapshot the strategy holds at that moment
OpenEvents ==
    {[trade |-> TradeEvent(TRUE, tid, x[1], x[2], 0, "None", <<>>), atr |-> x[3]] :
        tid \in TradeIds, x \in {<<1, 10000, 100>>, <<-1, 9800, 200>>}}

\* a close: untagged and without history, or tagged and with one history event
CloseEvents ==
    {TradeEvent(FALSE, tid, 0, 10000, x[1], x[2], x[3]) :
        tid \in TradeIds,
        x \in {<<-100, "None", <<>>>>,
               <<200, "TRAIL", <<[exectype |-> "Stop", price |-> 9900]>>>>}}

\* the bars fed to the ledger alone: one rising, one falling
LedgerBars == {d \in BarShapes : d.close # d.open}

LedgerInit == Init /\ p = DefaultParams

\* an open notification
FeedOpen(e) ==
    /\ ledger' = ledger_notify_trade(ledger, e.trade,
                                     [strat EXCEPT !.last_atr_on_entry = e.atr], bar)
    /\ results' = [called |-> FALSE, recs |-> <<>>]
    /\ UNCHANGED <<p, bar, data, phase, orderq, tradeq, broker, strat, cmds, fills>>

\* a close notification
FeedClose(t) ==
    /\ Len(ledger.closed_trades) < MaxClosed
    /\ ledger' = ledger_notify_trade(ledger, t, strat, bar)
    /\ results' = [called |-> FALSE, recs |-> <<>>]
    /\ UNCHANGED <<p, bar, data, phase, orderq, tradeq, broker, strat, cmds, fills>>

\* a bar
FeedBar(d) ==
    /\ bar < MaxLedgerBars
    /\ bar' = bar + 1
    /\ data' = d
    /\ ledger' = ledger_next(ledger, d)
    /\ results' = [called |-> FALSE, recs |-> <<>>]
    /\ UNCHANGED <<p, phase, orderq, tradeq, broker, strat, cmds, fills>>

LedgerNextStep ==
    \/ \E e \in OpenEvents : FeedOpen(e)
    \/ \E t \in CloseEvents : FeedClose(t)
    \/ \E d \in LedgerBars : FeedBar(d)
    \/ GetAnalysis

LedgerSpec == LedgerInit /\ [][LedgerNextStep]_vars

\* ----------------------------------------------------------- observations
Range(f) == {f[i] : i \in 1..Len(f)}

EntryCmds == {i \in 1..Len(cmds) : cmds[i].cmd = "submit_entry"}

\* the entry orders the gateway holds
EntryOrdersHeld == {i \in 1..Len(broker.pending) : broker.pending[i].kind = "entry"}

\* the protective orders the gateway holds
ProtectiveHeld == {o \in Range(broker.pending) : o.kind \in {"sl", "trail"}}

ClosedSeqs == {r.seq : r \in Range(ledger.closed_trades)}

OpenSeqs == {e.stats.seq : e \in Range(ledger.open_stats)}

\* every order notification of the bar has been delivered to the controller
OrdersNotified == phase # "idle" /\ orderq = <<>>

\* ------------------------------------------------------------------ claims

\* C1: at most one position is open at any time (one open trade at the gateway,
\* at most one open stat in the ledger), and the controller emits an entry
\* command only on a bar where the position is flat and the gateway holds no
\* earlier entry order: the gateway never holds two entry orders, nor one
\* beside an open position.
C1_SinglePosition ==
    /\ Len(ledger.open_stats) <= 1
    /\ Cardinality(OpenSeqs) <= 1
    /\ Cardinality(EntryOrdersHeld) <= 1
    /\ EntryOrdersHeld # {} => broker.position = 0
    /\ \A i \in EntryCmds : cmds[i].pos = 0
    /\ Cardinality(EntryCmds) <= 1

\* a bar on which the controller, holding a position and no pending entry, has
\* evaluated the bar after an earlier trade was already finalized
C1_Witness ==
    /\ phase = "analyzer"
    /\ broker.position # 0
    /\ ledger.closed_trades # <<>>
    /\ EntryCmds = {}

\* C2: every trade the gateway opened is, once notified, in exactly one place of
\* the ledger: its open stat until its close is notified, then exactly one
\* closed record (never none, never two); and when the position is flat with no
\* trade notification outstanding, the open-stat map is empty.
C2_ExactlyOnce ==
    /\ \A q \in 1..(broker.nextSeq - 1) :
          LET nclosed == Cardinality({i \in 1..Len(ledger.closed_trades) :
                                         ledger.closed_trades[i].seq = q})
              nopen   == Cardinality({i \in 1..Len(ledger.open_stats) :
                                         ledger.open_stats[i].stats.seq = q})
              opening == \E m \in Range(tradeq) : m.isopen /\ m.seq = q
              closing == \E m \in Range(tradeq) : m.isclosed /\ m.seq = q
              live    == broker.trade.seq = q
          IN /\ nclosed + nopen = IF opening THEN 0 ELSE 1
             /\ nclosed = IF live \/ closing \/ opening THEN 0 ELSE 1
    /\ (broker.position = 0 /\ tradeq = <<>>) => ledger.open_stats = <<>>

\* two trades were opened and both are finalized, the position is flat
C2_Witness ==
    /\ Len(ledger.closed_trades) = 2
    /\ broker.position = 0
    /\ tradeq = <<>>
    /\ phase = "idle"

CutoffPassed == p.ignore_before = NoCutoff \/ bar >= p.ignore_before

\* the bar on which the ledger recorded the last close
LastExitBar ==
    IF ledger.closed_trades = <<>> THEN NoBar
    ELSE ledger.closed_trades[Len(ledger.closed_trades)].dt_out

\* next() is about to evaluate a bar at or after the cutoff with no position, no
\* pending entry and no cooldown running
ReadyForEntry ==
    /\ CutoffPassed
    /\ broker.position = 0
    /\ EntryOrdersHeld = {}
    /\ LastExitBar = NoBar \/ bar - LastExitBar > p.reentry_cooldown

Bullish(ind) ==
    ind.hma.fast > ind.hma.mid1 /\ ind.hma.mid1 > ind.hma.mid2 /\ ind.hma.mid2 > ind.hma.mid3

Bearish(ind) ==
    ind.hma.fast < ind.hma.mid1 /\ ind.hma.mid1 < ind.hma.mid2 /\ ind.hma.mid2 < ind.hma.mid3

\* the noise-gate threshold of the bar
NoiseThreshold == p.atr_mult * data.atr

\* the gap is above the threshold: the move of the close since the last close
\* the controller recorded (the gap next() computes) and the distance of the
\* close from the fastest average (the gap of the design) both are
GapAbove(ind) ==
    /\ p.atr_mult > 0
    /\ strat.last_close # NoPrice
    /\ Abs(data.close - strat.last_close) > NoiseThreshold
    /\ Abs(data.close - ind.hma.fast) > NoiseThreshold

\* the close moved by at most the threshold since the last close the controller
\* recorded, or none is recorded yet
GapWithin ==
    /\ p.atr_mult > 0
    /\ strat.last_close = NoPrice \/ Abs(data.close - strat.last_close) <= NoiseThreshold

\* exactly one entry command was emitted on this bar: a long one of the
\* configured size
OneLongEntry ==
    /\ Cardinality(EntryCmds) = 1
    /\ \A i \in EntryCmds : cmds[i].size = p.order_size /\ cmds[i].size > 0

Emitted == SubSeq(cmds', Len(cmds) + 1, Len(cmds'))

\* next() cancelled every protective order the gateway held, then closed
CancelsThenClose ==
    /\ Emitted # <<>>
    /\ Emitted[Len(Emitted)].cmd = "close_position"
    /\ \A i \in 1..(Len(Emitted) - 1) : Emitted[i].cmd = "cancel"
    /\ \A o \in ProtectiveHeld : \E i \in 1..(Len(Emitted) - 1) : Emitted[i].ref = o.ref
    /\ ProtectiveHeld' = {}

OppositeStack(ind) ==
    \/ broker.position > 0 /\ Bearish(ind)
    \/ broker.position < 0 /\ Bullish(ind)

\* C5: whenever next() evaluates a bar with a position open, signal-exit on and
\* a strictly monotonic stack against the position, it cancels every protective
\* order and then emits a close; and every record of a position closed by that
\* close command has exit_type SIGNAL.
C5_SignalExit ==
    /\ [][\A ind \in IndReadings :
            (Next_(ind) /\ broker.position # 0 /\ p.use_signal_exit /\ OppositeStack(ind))
               => CancelsThenClose]_vars
    /\ [](\A r \in Range(ledger.closed_trades) :
             r.closed_by = "close" => r.exit_type = "SIGNAL")

C7_ExitTypeNamesCause ==
    \A r \in Range(ledger.closed_trades) :
        /\ r.exit_type = "STOPLOSS" <=> r.closed_by = "sl"
        /\ r.exit_type = "TRAIL" <=> r.closed_by = "trail"
        /\ r.exit_type = "SIGNAL" <=> r.closed_by = "close"

OpenRecs == {i \in 1..Len(results.recs) : results.recs[i].exit_type = "OPEN"}

\* C8: when get_analysis() is called with a position open, it returns exactly one
\* record with exit_type OPEN, priced at the last close, whose size is the signed
\* size of the position and whose pnl is (last close - entry price) x signed
\* size of the position, the entry price being the price the position was built
\* at.
C8_OpenRecord ==
    (results.called /\ broker.position # 0) =>
        /\ Cardinality(OpenRecs) = 1
        /\ \A i \in OpenRecs :
              /\ results.recs[i].price_out = data.close
              /\ results.recs[i].size = broker.position
              /\ results.recs[i].pnl = (data.close - broker.trade.price) * broker.position

\* what get_analysis() does return with a position open: exactly one OPEN record,
\* with the price and signed size of the fill that opened the trade and the pnl
\* of that size from that price
OpenRecordOfOpeningFill ==
    (results.called /\ broker.position # 0) =>
        /\ Cardinality(OpenRecs) = 1
        /\ \A i \in OpenRecs :
              /\ results.recs[i].price_in = broker.trade.entry_price
              /\ results.recs[i].size = broker.trade.entry_size
              /\ results.recs[i].price_out = data.close
              /\ results.recs[i].pnl =
                    (data.close - broker.trade.entry_price) * broker.trade.entry_size

\* C9: an entry command is emitted on bar B only if B - E > cooldown_bars for the
\* bar E of every close recorded so far; with cooldown_bars = 0 no entry is
\* emitted on the exit bar itself.
C9_Cooldown ==
    \A i \in EntryCmds : \A r \in Range(ledger.closed_trades) :
        bar - r.dt_out > p.reentry_cooldown

\* a new entry on the first bar after the cooldown of one bar has run out
C9_Witness ==
    /\ EntryCmds # {}
    /\ p.reentry_cooldown = 1
    /\ LastExitBar # NoBar
    /\ bar - LastExitBar = 2

\* C10: no entry command is emitted on a bar before the activation cutoff; on the
\* bar whose timestamp equals the cutoff next() evaluates the entry as on any
\* later bar: flat, with a strictly monotonic stack, the trend strength not
\* below the threshold and the gap filter not skipping, it emits the entry.
C10_Cutoff ==
    /\ []((p.ignore_before # NoCutoff /\ bar < p.ignore_before) => EntryCmds = {})
    /\ [][\A ind \in IndReadings :
            (Next_(ind) /\ p.ignore_before # NoCutoff /\ bar = p.ignore_before
               /\ broker.position = 0 /\ EntryOrdersHeld = {}
               /\ (Bullish(ind) \/ Bearish(ind)) /\ ind.adx >= p.adx_threshold
               /\ GapWithin)
               => Cardinality(EntryCmds') = 1]_vars

\* an entry command emitted on the bar whose timestamp equals the cutoff
C10_Witness ==
    /\ p.ignore_before # NoCutoff
    /\ bar = p.ignore_before
    /\ EntryCmds # {}

\* C11: while the result of a call of get_analysis() stands (no open, close or
\* bar event since), a second call returns the identical sequence of records;
\* and a call of get_analysis() leaves closed_trades and open_stats, with every
\* mae_abs and mfe_abs, as they were.
C11_QueryIdempotent ==
    /\ [](results.called => get_analysis(ledger, data, bar) = results.recs)
    /\ [][(results'.called /\ results' # results) => ledger' = ledger]_vars

\* the ledger was queried holding a closed record and an open stat whose
\* excursions are not both 0
C11_Witness ==
    /\ results.called
    /\ ledger.closed_trades # <<>>
    /\ \E e \in Range(ledger.open_stats) : e.stats.mae_abs > 0 /\ e.stats.mfe_abs > 0

\* C12: get_analysis() returns the closed records first, in the order of
\* closed_trades, which is the order in which their closes were notified (the
\* gateway's trade numbers increase), then exactly one record per entry of
\* open_stats, in its order, each with exit_type OPEN and priced at the latest
\* close; no closed record comes after an open one.
C12_QueryOrder ==
    results.called =>
        LET n    == Len(ledger.closed_trades)
            recs == results.recs
        IN /\ Len(recs) = n + Len(ledger.open_stats)
           /\ \A i \in 1..n : recs[i] = ledger.closed_trades[i] /\ recs[i].exit_type # "OPEN"
           /\ \A i, j \in 1..n : i < j => recs[i].seq < recs[j].seq /\ recs[i].dt_out <= recs[j].dt_out
           /\ \A i \in (n + 1)..Len(recs) :
                 /\ recs[i].exit_type = "OPEN"
                 /\ recs[i].seq = ledger.open_stats[i - n].stats.seq
                 /\ recs[i].price_out = data.close

\* the ledger was queried holding a closed record and the open stat of a short
C12_Witness ==
    /\ results.called
    /\ ledger.closed_trades # <<>>
    /\ Len(results.recs) = Len(ledger.closed_trades) + 1
    /\ results.recs[Len(results.recs)].size < 0

\* the open stats of the same trade before and after a step
SameTrade(e, f) == e.key = f.key /\ e.stats.seq = f.stats.seq

\* C13: mae_abs and mfe_abs of every open stat are 0 when the open notification
\* has stored it, are never negative, and never decrease for as long as the
\* stat of that trade stays in open_stats, whatever highs and lows the bars have.
C13_ExcursionsMonotone ==
    /\ [](\A e \in Range(ledger.open_stats) : e.stats.mae_abs >= 0 /\ e.stats.mfe_abs >= 0)
    /\ [][(LedgerNotifyTrade /\ Head(tradeq).isopen) =>
             \E f \in Range(ledger'.open_stats) :
                 /\ f.stats.seq = Head(tradeq).seq
                 /\ f.stats.mae_abs = 0 /\ f.stats.mfe_abs = 0]_vars
    /\ [][\A e \in Range(ledger.open_stats) : \A f \in Range(ledger'.open_stats) :
             SameTrade(e, f) =>
                 f.stats.mae_abs >= e.stats.mae_abs /\ f.stats.mfe_abs >= e.stats.mfe_abs]_vars

\* the ledger has processed a bar that lies entirely on the favourable side of
\* the entry price of an open long: the adverse move of the bar is below 0 and
\* mae_abs is still 0
C13_Witness ==
    /\ phase = "endbar"
    /\ \E e \in Range(ledger.open_stats) :
          /\ e.stats.size > 0
          /\ data.low > e.stats.price_in
          /\ e.stats.mae_abs = 0
          /\ e.stats.mfe_abs > 0

\* the adverse and the favourable move of the current bar for closed record r
AdverseMove(r) == IF r.size > 0 THEN r.price_in - data.low ELSE data.high - r.price_in

FavourableMove(r) == IF r.size > 0 THEN data.high - r.price_in ELSE r.price_in - data.low

\* C14: the mae_abs and mfe_abs of a record whose close is notified on the
\* current bar include that bar's high and low: they are at least the adverse
\* and the favourable move of the closing bar.
C14_ClosingBarIncluded ==
    \A r \in Range(ledger.closed_trades) :
        (r.dt_out = bar /\ phase # "idle") =>
            /\ r.mae_abs >= AdverseMove(r)
            /\ r.mfe_abs >= FavourableMove(r)

\* C15: a close notification for a trade id that has no open stat appends
\* exactly one record to closed_trades.
C15_DanglingCloseRecorded ==
    [][\A t \in CloseEvents :
          (FeedClose(t) /\ ~DictHas(ledger.open_stats, t.tradeid))
             => Len(ledger'.closed_trades) = Len(ledger.closed_trades) + 1]_vars

\* the open stats held under trade id tid
StatsOf(l, tid) == {i \in 1..Len(l.open_stats) : l.open_stats[i].key = tid}

\* C16: an open notification for a trade id that open_stats already holds leaves
\* exactly one stat for that id, in its place, with the entry price, size, entry
\* time and ATR snapshot of the later notification and excursions of 0; the
\* other stats and closed_trades are unchanged.
C16_LastOpenWins ==
    [][\A e \in OpenEvents :
          (FeedOpen(e) /\ DictHas(ledger.open_stats, e.trade.tradeid)) =>
             /\ Len(ledger'.open_stats) = Len(ledger.open_stats)
             /\ Cardinality(StatsOf(ledger', e.trade.tradeid)) = 1
             /\ \A i \in 1..Len(ledger.open_stats) :
                   IF ledger.open_stats[i].key = e.trade.tradeid
                   THEN LET st == ledger'.open_stats[i].stats
                        IN /\ ledger'.open_stats[i].key = e.trade.tradeid
                           /\ st.price_in = e.trade.price
                           /\ st.size = e.trade.size
                           /\ st.dt_in = bar
                           /\ st.atr_entry = e.atr
                           /\ st.mae_abs = 0 /\ st.mfe_abs = 0
                   ELSE ledger'.open_stats[i] = ledger.open_stats[i]
             /\ ledger'.closed_trades = ledger.closed_trades]_vars

\* trade id 0 was stored before trade id 1 and holds the entry time, side and
\* snapshot of a later open notification: its stat was overwritten in place
C16_Witness ==
    /\ Len(ledger.open_stats) = 2
    /\ ledger.open_stats[1].key = 0
    /\ ledger.open_stats[2].key = 1
    /\ ledger.open_stats[1].stats.dt_in > ledger.open_stats[2].stats.dt_in
    /\ ledger.open_stats[1].stats.size < 0
    /\ ledger.open_stats[1].stats.atr_entry = 200
    /\ ledger.closed_trades = <<>>

\* entry_price x |size| of closed record r
Notional(r) == r.price_in * Abs(r.size)

\* x / notional as the pair of its terms, 0 when the notional is 0
PctOf(x, notional) == IF notional > 0 THEN <<x, notional>> ELSE 0

\* C17: every closed record carries return_pct, mae_pct and mfe_pct, equal to
\* pnl_comm, mae_abs and mfe_abs over notional = price_in x |size|, and 0 when
\* the notional is 0.
C17_RiskRelativeMetrics ==
    \A r \in Range(ledger.closed_trades) :
        /\ {"return_pct", "mae_pct", "mfe_pct"} \subseteq DOMAIN r
        /\ r.return_pct = PctOf(r.pnl_comm, Notional(r))
        /\ r.mae_pct = PctOf(r.mae_abs, Notional(r))
        /\ r.mfe_pct = PctOf(r.mfe_abs, Notional(r))

\* the record notify_trade has just appended
LastClosed(l) == l.closed_trades[Len(l.closed_trades)]

\* C18: the exit price of the record stored for a closing trade is the price of
\* the newest event of its history when it has one; otherwise it is
\* entry_price + pnl / size, i.e. price_out x size = price_in x size + pnl.
C18_ExitPrice ==
    [][(LedgerNotifyTrade /\ Head(tradeq).isclosed) =>
          LET t == Head(tradeq)
              r == LastClosed(ledger')
          IN /\ Len(ledger'.closed_trades) = Len(ledger.closed_trades) + 1
             /\ IF t.history # <<>>
                THEN r.price_out = t.history[Len(t.history)].price
                ELSE r.price_out * r.size = r.price_in * r.size + t.pnl]_vars

\* C19: no record of closed_trades has exit_type OPEN: each is SIGNAL, STOPLOSS,
\* TRAIL or TARGET; in a result of get_analysis() OPEN is carried only by the
\* records built from the open stats, which follow the closed ones.
C19_OpenNeverStored ==
    /\ \A r \in Range(ledger.closed_trades) :
          r.exit_type \in {"SIGNAL", "STOPLOSS", "TRAIL", "TARGET"}
    /\ results.called =>
          \A i \in 1..Len(results.recs) :
              results.recs[i].exit_type = "OPEN" <=> i > Len(ledger.closed_trades)

\* the result of a query holds a record closed on the signal, untagged by any
\* protective fill, and after it the record of an open position
C19_Witness ==
    /\ results.called
    /\ \E i \in 1..Len(ledger.closed_trades) :
          results.recs[i].exit_type = "SIGNAL" /\ results.recs[i].closed_by = "close"
    /\ Len(results.recs) > Len(ledger.closed_trades)
    /\ results.recs[Len(results.recs)].exit_type = "OPEN"

\* the notification the controller is about to receive reports its pending
\* entry as cancelled, rejected or failed on margin
EntryRefusalDue ==
    /\ orderq # <<>>
    /\ strat.entry_order # NoOrder
    /\ Head(orderq).ref = strat.entry_order
    /\ Head(orderq).status \in {"Canceled", "Margin", "Rejected"}

\* C20: when the gateway reports the pending entry as rejected, cancelled or
\* margin-failed, there is no position, the controller clears the pending-entry
\* reference and changes nothing else (last-exit bar, ATR snapshot, protective
\* references), it emits no command and the gateway holds the same protective
\* orders as before; and whenever next() then evaluates a bar flat, at or after the
\* cutoff, with no entry held and no cooldown, a strictly monotonic stack, the
\* trend strength not below the threshold and the gap filter not skipping, it
\* emits an entry.
C20_EntryRefusedBackToFlat ==
    /\ [][(NotifyOrder /\ EntryRefusalDue) =>
             /\ broker.position = 0 /\ broker'.position = 0
             /\ strat' = [strat EXCEPT !.entry_order = NoOrder]
             /\ cmds' = cmds
             /\ ProtectiveHeld' = ProtectiveHeld]_vars
    /\ [][\A ind \in IndReadings :
             (Next_(ind) /\ ReadyForEntry /\ (Bullish(ind) \/ Bearish(ind))
                /\ ind.adx >= p.adx_threshold /\ (p.atr_mult = 0 \/ GapWithin))
                => Cardinality(EntryCmds') = 1]_vars

\* the first entry was refused (no trade was ever opened) and a second entry is
\* emitted on the bar on which the refusal was notified
C20_Witness ==
    /\ phase = "analyzer"
    /\ bar = 2
    /\ broker.nextSeq = 1
    /\ broker.position = 0
    /\ \E i \in EntryCmds : cmds[i].ref = 2

\* the configuration is valid: the cooldown is not negative and the periods of
\* the four averages increase strictly, fast < mid1 < mid2 < mid3
ValidConfig(pp) ==
    /\ pp.reentry_cooldown >= 0
    /\ pp.fast < pp.mid1 /\ pp.mid1 < pp.mid2 /\ pp.mid2 < pp.mid3

\* C21: a controller constructed with an invalid configuration never processes
\* a bar and never emits a command: no bar is counted, no command is emitted and
\* the gateway holds no order.
C21_InvalidConfigRejected ==
    ~ValidConfig(p) => (bar = 0 /\ phase = "idle" /\ cmds = <<>> /\ broker.pending = <<>>)

\* the notification the controller is about to receive reports its pending
\* entry as completed
EntryFillDue ==
    /\ orderq # <<>>
    /\ strat.entry_order # NoOrder
    /\ Head(orderq).ref = strat.entry_order
    /\ Head(orderq).status = "Completed"

\* C22: the controller takes the ATR snapshot from the bar on which the entry
\* fill is confirmed; the open stat of a trade opened by an entry fill holds the
\* ATR of that bar; the atr_entry of an open stat never changes while the stat
\* is held, whatever bars and events follow; and the atr_entry of the closed
\* record and of the OPEN record of a query equals that of the open stat.
C22_SnapshotFrozen ==
    /\ [][(NotifyOrder /\ EntryFillDue) => strat'.last_atr_on_entry = data.atr]_vars
    /\ [][(LedgerNotifyTrade /\ Head(tradeq).isopen /\ Head(tradeq).by = "entry") =>
             \E f \in Range(ledger'.open_stats) :
                 /\ f.stats.seq = Head(tradeq).seq
                 /\ f.stats.entry_bar = bar
                 /\ f.stats.atr_entry = data.atr]_vars
    /\ [][\A e \in Range(ledger.open_stats) : \A f \in Range(ledger'.open_stats) :
             SameTrade(e, f) => f.stats.atr_entry = e.stats.atr_entry]_vars
    /\ [][(LedgerNotifyTrade /\ Head(tradeq).isclosed
              /\ DictHas(ledger.open_stats, Head(tradeq).tradeid)) =>
             /\ Len(ledger'.closed_trades) = Len(ledger.closed_trades) + 1
             /\ LastClosed(ledger').atr_entry =
                    DictGet(ledger.open_stats, Head(tradeq).tradeid).atr_entry]_vars
    /\ [](results.called =>
             \A i \in 1..Len(ledger.open_stats) :
                 results.recs[Len(ledger.closed_trades) + i].atr_entry =
                     ledger.open_stats[i].stats.atr_entry)

\* a trade entered on a bar with ATR 200 is closed, at least two bars later, on a
\* bar with ATR 100, and its record holds 200
C22_Witness ==
    /\ phase = "analyzer"
    /\ data.atr = 100
    /\ \E r \in Range(ledger.closed_trades) :
          r.dt_out = bar /\ r.barlen >= 2 /\ r.atr_entry = 200 /\ r.closed_by = "close"

\* the protective commands the controller has emitted on this bar
ProtectiveCmds ==
    {c \in Range(cmds) : c.cmd \in {"submit_fixed_stop", "submit_trailing_stop"}}

\* C23: every protective order submitted after an entry fill has the size of
\* the position on the closing side (a sell for a long, a buy for a short), the
\* fixed stop is priced on the adverse side of the entry price (below it for a
\* long, above it for a short), and the fill of a protective order returns the
\* position to flat.
C23_ProtectiveCovers ==
    /\ \A c \in ProtectiveCmds :
          /\ c.pos # 0
          /\ c.size = 0 - c.pos
          /\ c.cmd = "submit_fixed_stop" =>
                IF c.pos > 0 THEN c.price < broker.trade.price
                             ELSE c.price > broker.trade.price
    /\ \A f \in Range(fills) : f.kind \in {"sl", "trail"} => f.pos + f.size = 0

\* the entry commands among those next() emitted
EmittedEntries == {c \in Range(Emitted) : c.cmd = "submit_entry"}

\* C24: next() emits a long entry only on a bar where fast > mid1 > mid2 > mid3
\* and a short entry only where fast < mid1 < mid2 < mid3; on a bar where the
\* averages are not strictly monotonic (two adjacent ones equal) it emits no
\* entry; and no other callback emits an entry.
C24_TrendAlignment ==
    /\ [][\A ind \in IndReadings :
             Next_(ind) =>
                /\ \A c \in EmittedEntries :
                      /\ c.size # 0
                      /\ c.size > 0 => Bullish(ind)
                      /\ c.size < 0 => Bearish(ind)
                /\ (~Bullish(ind) /\ ~Bearish(ind)) => EmittedEntries = {}]_vars
    /\ [][Cardinality(EntryCmds') > Cardinality(EntryCmds) => \E ind \in IndReadings : Next_(ind)]_vars

\* a short entry emitted after an earlier trade was closed
C24_Witness ==
    /\ phase = "analyzer"
    /\ \E i \in EntryCmds : cmds[i].size < 0
    /\ ledger.closed_trades # <<>>

\* C25: next() emits no entry on a bar whose trend-strength reading does not
\* exceed the threshold: neither below it nor exactly at it.
C25_RegimeGate ==
    [][\A ind \in IndReadings :
          (Next_(ind) /\ ind.adx <= p.adx_threshold) => EmittedEntries = {}]_vars

\* what next() does: it emits no entry on a bar whose trend-strength reading is
\* below the threshold
NoEntryBelowThreshold ==
    [][\A ind \in IndReadings :
          (Next_(ind) /\ ind.adx < p.adx_threshold) => EmittedEntries = {}]_vars

\* the gap does not exceed the threshold: neither the move of the close since
\* the last close the controller recorded (the gap next() computes) nor the
\* distance of the close from the fastest average (the gap of the design) does
GapNotAbove(ind) ==
    /\ strat.last_close # NoPrice
    /\ Abs(data.close - strat.last_close) <= NoiseThreshold
    /\ Abs(data.close - ind.hma.fast) <= NoiseThreshold

EntryPending == strat.entry_order # NoOrder /\ bar < MaxBars

\* the pending-entry reference is cleared: a position is open, or the
\* controller is flat and the gateway holds no entry order
EntryResolved ==
    /\ strat.entry_order = NoOrder
    /\ broker.position # 0 \/ EntryOrdersHeld = {}

\* C27: under the engine's scheduling every pending entry on which the gateway
\* can still report is followed by a state with the pending-entry reference
\* cleared and either a position open or the controller flat; and whenever
\* next() then evaluates a bar flat after an exit and its cooldown, with the
\* gates passing, it emits an entry again.
C27_EntryCycleLive ==
    /\ EntryPending ~> EntryResolved
    /\ [][\A ind \in IndReadings :
             (Next_(ind) /\ ReadyForEntry /\ ledger.closed_trades # <<>>
                /\ (Bullish(ind) \/ Bearish(ind)) /\ ind.adx >= p.adx_threshold
                /\ (p.atr_mult = 0 \/ GapWithin))
                => (strat'.entry_order # NoOrder /\ Cardinality(EmittedEntries) = 1)]_vars

\* the fill of a second entry has been notified and its reference cleared,
\* after the first trade was closed
C27_Witness ==
    /\ OrdersNotified
    /\ \E f \in Range(fills) : f.kind = "entry"
    /\ EntryResolved
    /\ broker.position # 0
    /\ ledger.closed_trades # <<>>

\* C28: between two bars, whenever the controller is flat (no position, no
\* pending entry), both protective-order references are cleared: the one of a
\* protective order that filled as well as the one of its cancelled sibling.
C28_FlatHasNoProtectiveRefs ==
    (phase = "idle" /\ broker.position = 0 /\ strat.entry_order = NoOrder)
        => (strat.sl_order = NoOrder /\ strat.trail_order = NoOrder)

\* what the controller does clear: between two bars, flat, it holds no
\* reference to an order the gateway still holds
NoRefToHeldOrder ==
    (phase = "idle" /\ broker.position = 0 /\ strat.entry_order = NoOrder)
        => (~HasOrder(broker, strat.sl_order) /\ ~HasOrder(broker, strat.trail_order))

\* C29: the absolute size of the net position never exceeds the configured
\* entry size, and every fill of an order that is not an entry (a protective
\* order, a close) reduces the position it meets: it neither opens a position
\* from flat, nor enlarges one, nor takes it through flat to the other side.
C29_PositionBounded ==
    /\ Abs(broker.position) <= p.order_size
    /\ \A f \in Range(fills) :
          f.kind # "entry" =>
              /\ f.pos # 0
              /\ f.pos * f.size < 0
              /\ Abs(f.size) <= Abs(f.pos)

\* what does hold: an entry order is filled only into a flat position, and the
\* position is never larger than the entry and its two protective orders together
EntryFillsFromFlat ==
    /\ Abs(broker.position) <= 3 * p.order_size
    /\ \A f \in Range(fills) : f.kind = "entry" => f.pos = 0

\* closed_trades after a step begins with closed_trades before it
ClosedKept ==
    /\ Len(ledger'.closed_trades) >= Len(ledger.closed_trades)
    /\ SubSeq(ledger'.closed_trades, 1, Len(ledger.closed_trades)) = ledger.closed_trades

\* C30: closed_trades is append-only: every step leaves the records it holds
\* as they are and in their places and adds at most one at the end; only the
\* notification of a close adds one; the notification of an open, next() and
\* get_analysis() leave closed_trades unchanged.
C30_ClosedAppendOnly ==
    /\ [][ClosedKept /\ Len(ledger'.closed_trades) <= Len(ledger.closed_trades) + 1]_vars
    /\ [][ledger'.closed_trades # ledger.closed_trades
             => (LedgerNotifyTrade /\ Head(tradeq).isclosed)]_vars
    /\ [][((LedgerNotifyTrade /\ Head(tradeq).isopen) \/ LedgerNext \/ GetAnalysis)
             => ledger'.closed_trades = ledger.closed_trades]_vars

\* the record of a second close was appended behind the first, and the ledger
\* was queried afterwards
C30_Witness ==
    /\ results.called
    /\ Len(ledger.closed_trades) = 2
    /\ ledger.closed_trades[1].seq = 1
    /\ ledger.closed_trades[2].seq = 2
    /\ ledger.closed_trades[1].dt_out < ledger.closed_trades[2].dt_out

====
